---- MODULE Spec2Model ----
(***************************************************************************)
(* Apollo data enrichment tool (apollo_enrichment_app.py).                 *)
(*                                                                         *)
(* Python strings that are matched against patterns or trimmed (the form   *)
(* fields) are sequences of one-character strings.  Texts that are only    *)
(* assembled (messages, report lines) are TLA+ strings joined with \o.     *)
(* Decoded JSON values are tagged records, see the JSON section.           *)
(***************************************************************************)
EXTENDS Integers, Sequences, FiniteSets, TLC

VARIABLES
    pc,        \* per invocation: where the entry point stands
    args,      \* per invocation: the five strings the GUI passed
    apollo,    \* per invocation: the ApolloAPI object it constructed
    wire,      \* every requests.post call issued so far
    response,  \* per invocation: what requests.post produced
    result,    \* per invocation: the dict ApolloAPI.enrich_* returned
    ret,       \* per invocation: what the entry point handed to the GUI
    vin,       \* validator run: the string under test
    vout       \* validator run: which validator ran and what it said

vars == <<pc, args, apollo, wire, response, result, ret, vin, vout>>

-----------------------------------------------------------------------------
(* Characters and Python str operations                                    *)

Lower == {"a","b","c","d","e","f","g","h","i","j","k","l","m",
          "n","o","p","q","r","s","t","u","v","w","x","y","z"}
Upper == {"A","B","C","D","E","F","G","H","I","J","K","L","M",
          "N","O","P","Q","R","S","T","U","V","W","X","Y","Z"}
Digit == {"0","1","2","3","4","5","6","7","8","9"}
Alpha == Lower \cup Upper
AlNum == Alpha \cup Digit
AlNumHyphen == AlNum \cup {"-"}

\* The characters str.strip() removes (the ASCII ones).
Whitespace == {" ", "\t", "\n", "\r", "\f"}

\* s.strip() with no argument.
Strip(s) ==
    LET keep == {i \in 1..Len(s) : s[i] \notin Whitespace}
    IN  IF keep = {} THEN <<>>
        ELSE SubSeq(s, CHOOSE i \in keep : \A j \in keep : i <= j,
                       CHOOSE i \in keep : \A j \in keep : j <= i)

-----------------------------------------------------------------------------
(* re.match: a pattern is run left to right over the set of positions the  *)
(* match can have reached; position p means s[1..p-1] is consumed.         *)

\* class{lo,hi}
ReClass(s, P, class, lo, hi) ==
    {q \in 1..(Len(s) + 1) :
        \E p \in P : /\ q - p >= lo
                     /\ q - p <= hi
                     /\ \A j \in p..(q - 1) : s[j] \in class}

\* a literal
ReLit(s, P, lit) ==
    {p + Len(lit) : p \in {x \in P : /\ x + Len(lit) - 1 <= Len(s)
                                     /\ SubSeq(s, x, x + Len(lit) - 1) = lit}}

\* $ without re.MULTILINE: at the end, or just before a final newline
ReEnd(s, P) ==
    \E p \in P : \/ p = Len(s) + 1
                 \/ (p = Len(s) /\ s[p] = "\n")

\* {0,61} in domain_pattern
DomainMidMax == 61
\* {2,} in domain_pattern and email_pattern
TldMin == 2

validate_domain(domain) ==
    IF domain = <<>> THEN FALSE
    ELSE LET p1 == ReClass(domain, {1}, AlNum, 1, 1)
             p2 == ReClass(domain, p1, AlNumHyphen, 0, DomainMidMax)
             p3 == p2 \cup ReClass(domain, p2, AlNum, 1, 1)
             p4 == ReLit(domain, p3, <<".">>)
             p5 == ReClass(domain, p4, Alpha, TldMin, Len(domain))
         IN  ReEnd(domain, p5)

EmailLocal == AlNum \cup {".", "_", "%", "+", "-"}
EmailHost == AlNum \cup {".", "-"}

validate_email(email) ==
    IF email = <<>> THEN FALSE
    ELSE LET p1 == ReClass(email, {1}, EmailLocal, 1, Len(email))
             p2 == ReLit(email, p1, <<"@">>)
             p3 == ReClass(email, p2, EmailHost, 1, Len(email))
             p4 == ReLit(email, p3, <<".">>)
             p5 == ReClass(email, p4, Alpha, TldMin, Len(email))
         IN  ReEnd(email, p5)

validate_linkedin_url(url) ==
    IF url = <<>> THEN TRUE
    ELSE LET p1 == ReLit(url, {1}, <<"h","t","t","p">>)
             p2 == p1 \cup ReLit(url, p1, <<"s">>)
             p3 == ReLit(url, p2, <<":","/","/">>)
             p4 == p3 \cup ReLit(url, p3, <<"w","w","w",".">>)
             p5 == ReLit(url, p4, <<"l","i","n","k","e","d","i","n",".","c","o","m","/">>)
             p6 == ReLit(url, p5, <<"i","n">>)
                     \cup ReLit(url, p5, <<"c","o","m","p","a","n","y">>)
             p7 == ReLit(url, p6, <<"/">>)
             p8 == ReClass(url, p7, AlNumHyphen, 1, Len(url))
             p9 == p8 \cup ReLit(url, p8, <<"/">>)
         IN  ReEnd(url, p9)

-----------------------------------------------------------------------------
(* Decoded JSON values and the Python operations the code applies to them  *)

JNull == [t |-> "null"]
JBool(b) == [t |-> "bool", b |-> b]
JNum(n) == [t |-> "num", n |-> n]
JStr(s) == [t |-> "str", s |-> s]
JList(l) == [t |-> "list", l |-> l]
JObj(o) == [t |-> "obj", o |-> o]
\* response.json() failed: the body is no JSON text
JInvalid == [t |-> "invalid"]

EmptyMap == [k \in {} |-> JNull]

\* bool(v)
Truthy(v) ==
    CASE v.t = "null" -> FALSE
      [] v.t = "bool" -> v.b
      [] v.t = "num"  -> v.n # 0
      [] v.t = "str"  -> v.s # ""
      [] v.t = "list" -> v.l # <<>>
      [] v.t = "obj"  -> DOMAIN v.o # {}

\* type(v).__name__
PyTypeName(v) ==
    CASE v.t = "null" -> "NoneType"
      [] v.t = "bool" -> "bool"
      [] v.t = "num"  -> "int"
      [] v.t = "str"  -> "str"
      [] v.t = "list" -> "list"
      [] v.t = "obj"  -> "dict"

DigitStr(d) ==
    CASE d = 0 -> "0" [] d = 1 -> "1" [] d = 2 -> "2" [] d = 3 -> "3"
      [] d = 4 -> "4" [] d = 5 -> "5" [] d = 6 -> "6" [] d = 7 -> "7"
      [] d = 8 -> "8" [] d = 9 -> "9"

RECURSIVE NatStr(_)
\* str(n) of a non-negative int
NatStr(n) == IF n < 10 THEN DigitStr(n) ELSE NatStr(n \div 10) \o DigitStr(n % 10)

\* str(v) as an f-string renders it; containers are rendered only when empty
PyStr(v) ==
    CASE v.t = "null" -> "None"
      [] v.t = "bool" -> IF v.b THEN "True" ELSE "False"
      [] v.t = "num"  -> NatStr(v.n)
      [] v.t = "str"  -> v.s
      [] v.t = "list" /\ v.l = <<>> -> "[]"
      [] v.t = "obj" /\ DOMAIN v.o = {} -> "{}"

\* d.get(key, default) of a dict d
DictGet(d, key, default) == IF key \in DOMAIN d.o THEN d.o[key] ELSE default

\* the message of the AttributeError raised by v.get on a non-dict
NoGetAttr(v) == "'" \o PyTypeName(v) \o "' object has no attribute 'get'"

-----------------------------------------------------------------------------
(* Values the model passes around                                          *)

\* An optional str argument: <<>> is None, <<s>> is the str s.
PyNone == <<>>
PySome(s) == <<s>>
\* `if arg:` for an optional str
OptTruthy(a) == a # PyNone /\ a[1] # <<>>

\* x.strip() if x else None
StripOrNone(x) == IF x # <<>> THEN PySome(Strip(x)) ELSE PyNone

NoArgs == [kind |-> "none", api_key |-> <<>>, ident |-> <<>>,
           linkedin_url |-> <<>>, opt1 |-> <<>>, opt2 |-> <<>>]
NoApollo == [api_key |-> <<>>, base_url |-> "", headers |-> EmptyMap]
NoResponse == [kind |-> "none", status |-> 0, text |-> "", json |-> JInvalid,
               jsonexc |-> "", err |-> ""]
NoResult == [status |-> "none", data |-> JNull, message |-> ""]
NoReturn == [kind |-> "none", lines |-> <<>>, exc |-> ""]

\* Stand-ins for the source's non-ASCII characters: U+274C (cross mark), U+2705
\* (check mark), U+2022 (bullet), U+1F4CA (bar chart), U+1F464 (bust).
CrossMark == "[x]"
CheckMark == "[v]"
Bullet == "*"
ChartMark == "[chart]"
BustMark == "[bust]"
NA == "N/A"

\* A returned text: its lines, each a sequence of pieces; the str is the pieces
\* of each line joined, and the lines joined by "\n".
Text(lines) == [kind |-> "text", lines |-> lines, exc |-> ""]
Raised(exc) == [kind |-> "raised", lines |-> <<>>, exc |-> exc]

-----------------------------------------------------------------------------
(* class ApolloAPI                                                         *)

base_url == "https://api.apollo.io/api/v1"

\* ApolloAPI with `headers` kept in one place for all objects
ApolloAPI_init_shared(store, self, api_key) ==
    [j \in DOMAIN store |->
        [api_key  |-> api_key,
         base_url |-> base_url,
         headers  |-> ("Content-Type" :> "application/json")
                        @@ ("Cache-Control" :> "no-cache")
                        @@ ("X-Api-Key" :> api_key)]]

\* ApolloAPI(api_key): the object of invocation `self` in the store of objects
ApolloAPI_init(store, self, api_key) ==
    [store EXCEPT ![self] =
        [api_key  |-> api_key,
         base_url |-> base_url,
         headers  |-> ("Content-Type" :> "application/json")
                        @@ ("Cache-Control" :> "no-cache")
                        @@ ("X-Api-Key" :> api_key)]]

\* the params dict of enrich_company
enrich_company_params(domain, linkedin_url, company_name, country_code) ==
    ("domain" :> domain)
      @@ (IF OptTruthy(linkedin_url) THEN "linkedin_url" :> linkedin_url[1] ELSE EmptyMap)
      @@ (IF OptTruthy(company_name) THEN "name" :> company_name[1] ELSE EmptyMap)
      @@ (IF OptTruthy(country_code) THEN "country" :> country_code[1] ELSE EmptyMap)

\* the params dict of enrich_contact
enrich_contact_params(email, linkedin_url, first_name, last_name) ==
    ("email" :> email)
      @@ (IF OptTruthy(linkedin_url) THEN "linkedin_url" :> linkedin_url[1] ELSE EmptyMap)
      @@ (IF OptTruthy(first_name) THEN "first_name" :> first_name[1] ELSE EmptyMap)
      @@ (IF OptTruthy(last_name) THEN "last_name" :> last_name[1] ELSE EmptyMap)

\* requests.post(url, json=params, headers=self.headers) as it goes out
PostCall(from, self, path, params) ==
    [from |-> from, url |-> self.base_url \o path, headers |-> self.headers,
     json |-> params]

Success(data, message) == [status |-> "success", data |-> data, message |-> message]
Error(message) == [status |-> "error", data |-> JObj(EmptyMap), message |-> message]

\* enrich_outcome taking every 2xx status for a success
enrich_outcome_2xx(resp, key, okmsg) ==
    CASE resp.kind = "transport" -> Error("Request failed: " \o resp.err)
      [] resp.kind = "other" -> Error("Unexpected error: " \o resp.err)
      [] resp.kind = "http" ->
            IF resp.status >= 200 /\ resp.status < 300
            THEN IF resp.json.t = "invalid"
                 THEN IF resp.jsonexc = "RequestException"
                      THEN Error("Request failed: " \o resp.err)
                      ELSE Error("Unexpected error: " \o resp.err)
                 ELSE IF resp.json.t # "obj"
                 THEN Error("Unexpected error: " \o NoGetAttr(resp.json))
                 ELSE Success(DictGet(resp.json, key, JObj(EmptyMap)), okmsg)
            ELSE Error("API Error: " \o NatStr(resp.status) \o " - " \o resp.text)

\* What enrich_company / enrich_contact return for the outcome `resp` of the
\* post: the body of the try block after the post, and the two except clauses.
enrich_outcome(resp, key, okmsg) ==
    CASE resp.kind = "transport" -> Error("Request failed: " \o resp.err)
      [] resp.kind = "other" -> Error("Unexpected error: " \o resp.err)
      [] resp.kind = "http" ->
            IF resp.status = 200
            THEN IF resp.json.t = "invalid"
                 THEN IF resp.jsonexc = "RequestException"
                      THEN Error("Request failed: " \o resp.err)
                      ELSE Error("Unexpected error: " \o resp.err)
                 ELSE IF resp.json.t # "obj"
                 THEN Error("Unexpected error: " \o NoGetAttr(resp.json))
                 ELSE Success(DictGet(resp.json, key, JObj(EmptyMap)), okmsg)
            ELSE Error("API Error: " \o NatStr(resp.status) \o " - " \o resp.text)

enrich_company(resp) ==
    enrich_outcome(resp, "organization", "Company data enriched successfully")

enrich_contact(resp) ==
    enrich_outcome(resp, "person", "Contact data enriched successfully")

-----------------------------------------------------------------------------
(* enrich_company_data and enrich_contact_data                             *)

\* company_preflight with the LinkedIn check ahead of the domain checks
company_preflight_swapped(api_key, domain, linkedin_url) ==
    IF Strip(api_key) = <<>>
    THEN <<CrossMark \o " Error: Please enter your Apollo API key">>
    ELSE IF linkedin_url # <<>> /\ ~validate_linkedin_url(linkedin_url)
    THEN <<CrossMark \o " Error: Please enter a valid LinkedIn URL (e.g., https://linkedin.com/company/example)">>
    ELSE IF Strip(domain) = <<>>
    THEN <<CrossMark \o " Error: Company domain is required">>
    ELSE IF ~validate_domain(domain)
    THEN <<CrossMark \o " Error: Please enter a valid domain (e.g., example.com)">>
    ELSE <<>>

\* company_preflight validating the trimmed domain
company_preflight_trimmed(api_key, domain, linkedin_url) ==
    IF Strip(api_key) = <<>>
    THEN <<CrossMark \o " Error: Please enter your Apollo API key">>
    ELSE IF Strip(domain) = <<>>
    THEN <<CrossMark \o " Error: Company domain is required">>
    ELSE IF ~validate_domain(Strip(domain))
    THEN <<CrossMark \o " Error: Please enter a valid domain (e.g., example.com)">>
    ELSE IF linkedin_url # <<>> /\ ~validate_linkedin_url(linkedin_url)
    THEN <<CrossMark \o " Error: Please enter a valid LinkedIn URL (e.g., https://linkedin.com/company/example)">>
    ELSE <<>>

\* The checks before the call: the error line returned, or <<>> when all pass.
company_preflight(api_key, domain, linkedin_url) ==
    IF Strip(api_key) = <<>>
    THEN <<CrossMark \o " Error: Please enter your Apollo API key">>
    ELSE IF Strip(domain) = <<>>
    THEN <<CrossMark \o " Error: Company domain is required">>
    ELSE IF ~validate_domain(domain)
    THEN <<CrossMark \o " Error: Please enter a valid domain (e.g., example.com)">>
    ELSE IF linkedin_url # <<>> /\ ~validate_linkedin_url(linkedin_url)
    THEN <<CrossMark \o " Error: Please enter a valid LinkedIn URL (e.g., https://linkedin.com/company/example)">>
    ELSE <<>>

contact_preflight(api_key, email, linkedin_url) ==
    IF Strip(api_key) = <<>>
    THEN <<CrossMark \o " Error: Please enter your Apollo API key">>
    ELSE IF Strip(email) = <<>>
    THEN <<CrossMark \o " Error: Email address is required">>
    ELSE IF ~validate_email(email)
    THEN <<CrossMark \o " Error: Please enter a valid email address">>
    ELSE IF linkedin_url # <<>> /\ ~validate_linkedin_url(linkedin_url)
    THEN <<CrossMark \o " Error: Please enter a valid LinkedIn URL (e.g., https://linkedin.com/in/username)">>
    ELSE <<>>

\* the arguments of apollo.enrich_company(...) / apollo.enrich_contact(...)
company_call_params(a) ==
    enrich_company_params(Strip(a.ident), StripOrNone(a.linkedin_url),
                          StripOrNone(a.opt1), StripOrNone(a.opt2))

contact_call_params(a) ==
    enrich_contact_params(Strip(a.ident), StripOrNone(a.linkedin_url),
                          StripOrNone(a.opt1), StripOrNone(a.opt2))

\* {data.get(key, 'N/A')} in an f-string
Field(data, key) == PyStr(DictGet(data, key, JStr(NA)))

Location(data) ==
    <<Bullet \o " **Location:** ", Field(data, "city"), ", ",
      Field(data, "state"), ", ", Field(data, "country")>>

\* the part of enrich_company_data after the call
format_company(res) ==
    IF res.status = "success"
    THEN LET data == res.data
         IN  IF data.t # "obj"
             THEN Raised("AttributeError: " \o NoGetAttr(data))
             ELSE Text(<< <<CheckMark \o " ", res.message>>,
                          <<>>,
                          <<ChartMark \o " **Enriched Company Data:**">>,
                          <<Bullet \o " **Name:** ", Field(data, "name")>>,
                          <<Bullet \o " **Domain:** ", Field(data, "domain")>>,
                          <<Bullet \o " **Website:** ", Field(data, "website_url")>>,
                          <<Bullet \o " **LinkedIn:** ", Field(data, "linkedin_url")>>,
                          <<Bullet \o " **Industry:** ", Field(data, "industry")>>,
                          <<Bullet \o " **Company Size:** ",
                            Field(data, "estimated_num_employees")>>,
                          Location(data),
                          <<Bullet \o " **Founded:** ", Field(data, "founded_year")>>,
                          <<Bullet \o " **Description:** ",
                            Field(data, "short_description")>>,
                          <<>> >>)
    ELSE Text(<< <<CrossMark \o " ", res.message>> >>)

Cell(v) == [ok |-> TRUE, v |-> v]
Throw(exc) == [ok |-> FALSE, v |-> exc]

\* data.get('organization', {}).get('name', 'N/A') if data.get('organization') else 'N/A'
company_cell(data) ==
    LET org == DictGet(data, "organization", JNull)
    IN  IF ~Truthy(org) THEN Cell(NA)
        ELSE IF org.t = "obj" THEN Cell(PyStr(DictGet(org, "name", JStr(NA))))
        ELSE Throw("AttributeError: " \o NoGetAttr(org))

\* data.get('phone_numbers', [{}])[0].get('raw_number', 'N/A')
\*     if data.get('phone_numbers') else 'N/A'
phone_cell(data) ==
    LET pn == DictGet(data, "phone_numbers", JNull)
    IN  IF ~Truthy(pn) THEN Cell(NA)
        ELSE CASE pn.t = "list" ->
                    IF pn.l[1].t = "obj"
                    THEN Cell(PyStr(DictGet(pn.l[1], "raw_number", JStr(NA))))
                    ELSE Throw("AttributeError: " \o NoGetAttr(pn.l[1]))
               [] pn.t = "str" -> Throw("AttributeError: " \o NoGetAttr(pn))
               [] pn.t = "obj" -> Throw("KeyError: 0")
               [] pn.t \in {"num", "bool"} ->
                    Throw("TypeError: '" \o PyTypeName(pn) \o "' object is not subscriptable")

\* the part of enrich_contact_data after the call
format_contact(res) ==
    IF res.status = "success"
    THEN LET data == res.data
         IN  IF data.t # "obj"
             THEN Raised("AttributeError: " \o NoGetAttr(data))
             ELSE IF ~company_cell(data).ok THEN Raised(company_cell(data).v)
             ELSE IF ~phone_cell(data).ok THEN Raised(phone_cell(data).v)
             ELSE Text(<< <<CheckMark \o " ", res.message>>,
                          <<>>,
                          <<BustMark \o " **Enriched Contact Data:**">>,
                          <<Bullet \o " **Name:** ", Field(data, "first_name"), " ",
                            Field(data, "last_name")>>,
                          <<Bullet \o " **Email:** ", Field(data, "email")>>,
                          <<Bullet \o " **LinkedIn:** ", Field(data, "linkedin_url")>>,
                          <<Bullet \o " **Title:** ", Field(data, "title")>>,
                          <<Bullet \o " **Company:** ", company_cell(data).v>>,
                          Location(data),
                          <<Bullet \o " **Phone:** ", phone_cell(data).v>>,
                          <<Bullet \o " **Twitter:** ", Field(data, "twitter_url")>>,
                          <<Bullet \o " **Bio:** ", Field(data, "headline")>>,
                          <<>> >>)
    ELSE Text(<< <<CrossMark \o " ", res.message>> >>)

-----------------------------------------------------------------------------
(* Inputs: what the GUI can pass and what the provider can answer          *)

\* concurrent invocations of the entry points
NumSlots == 2
Slots == 1..NumSlots

ExampleCom == <<"e","x","a","m","p","l","e",".","c","o","m">>
AtBCo == <<"a","@","b",".","c","o">>
LinkedInIn == <<"h","t","t","p","s",":","/","/","l","i","n","k","e","d","i","n",
                ".","c","o","m","/","i","n","/","j","a","n","e","d","o","e">>
LinkedInCompany == <<"h","t","t","p",":","/","/","w","w","w",".","l","i","n","k",
                     "e","d","i","n",".","c","o","m","/","c","o","m","p","a","n",
                     "y","/","e","x","-","1","/">>
FtpLink == <<"f","t","p",":","/","/","l","i","n","k","e","d","i","n",
             ".","c","o","m","/","i","n","/","j","a","n","e">>
Key1 == <<"k","1">>
Key2 == <<"k","2">>

FormKeys == {<<>>, <<" ">>, Key1, <<" ">> \o Key2 \o <<" ">>}
FormDomains == {<<>>, <<" ">>, ExampleCom, <<" ">> \o ExampleCom,
                ExampleCom \o <<" ">>, ExampleCom \o <<"\n">>,
                <<"e","x","a","m","p","l","e","-",".","c","o","m">>,
                <<"e","x","a","m","p","l","e">>}
FormEmails == {<<>>, <<"\t">>, AtBCo, <<" ">> \o AtBCo, AtBCo \o <<" ">>,
               AtBCo \o <<"\n">>, <<"n","o","t","-","a","n","-","e","m","a","i","l">>,
               <<"a","@","b">>}
FormLinks == {<<>>, <<" ">>, LinkedInIn, <<" ">> \o LinkedInIn,
              LinkedInCompany \o <<"\n">>, FtpLink}
FormOpts == {<<>>, <<" ">>, <<"U","S">>, <<" ","U","S"," ">>}

Http(status, text, json) ==
    [kind |-> "http", status |-> status, text |-> text, json |-> json,
     jsonexc |-> "", err |-> ""]
\* A 200 whose body is no JSON: response.json() raises, a RequestException
\* subclass in requests >= 2.27 and a plain ValueError before.
HttpNotJson(text, exc) ==
    [kind |-> "http", status |-> 200, text |-> text, json |-> JInvalid,
     jsonexc |-> exc, err |-> "Expecting value: line 1 column 1 (char 0)"]
\* requests.post raised a RequestException
Transport(err) ==
    [kind |-> "transport", status |-> 0, text |-> "", json |-> JInvalid,
     jsonexc |-> "", err |-> err]
\* requests.post raised something else
OtherFailure(err) ==
    [kind |-> "other", status |-> 0, text |-> "", json |-> JInvalid,
     jsonexc |-> "", err |-> err]

\* The raw text of a 200 body that decoded: the code reads json() only.
JsonText == "(json)"
Ok200(json) == Http(200, JsonText, json)

Failures ==
    {Transport("Connection refused"), Transport("Read timed out."),
     OtherFailure("boom")}
     \cup {Http(st, tx, JInvalid) : st \in {201, 204, 401, 404, 500},
                                    tx \in {"", "Unauthorized"}}
     \cup {HttpNotJson("<html>", exc) : exc \in {"RequestException", "ValueError"}}

\* decoded bodies that are no JSON object
NonObjects == {JNull, JList(<<>>), JStr("x"), JNum(7), JBool(TRUE)}

\* values a field of the payload may carry
Scalars == {JNull, JStr(""), JStr("x"), JNum(0), JNum(7), JBool(FALSE),
            JList(<<>>), JObj(EmptyMap)}

CompanyKeys == {"name", "domain", "website_url", "linkedin_url", "industry",
                "estimated_num_employees", "city", "state", "country",
                "founded_year", "short_description"}
ContactKeys == {"first_name", "last_name", "email", "linkedin_url", "title",
                "city", "state", "country", "twitter_url", "headline"}

OrganizationValues ==
    Scalars \cup {JObj("name" :> v) : v \in Scalars} \cup {JObj("id" :> JNum(7))}
PhoneValues ==
    Scalars \cup {JList(<<JObj("raw_number" :> v)>>) : v \in Scalars}
            \cup {JList(<<JObj(EmptyMap)>>), JList(<<JNum(7)>>), JList(<<JNull>>),
                  JObj("raw_number" :> JStr("x")), JBool(TRUE)}

\* the number of keys of an enumerated payload
MaxFields == 2

\* payloads of one key with every value, and of up to MaxFields keys with two
OneKey(keys, values) == {k :> v : k \in keys, v \in values}
ManyKeys(keys) ==
    UNION {[K -> {JNull, JStr("x")}] :
             K \in {X \in SUBSET keys : Cardinality(X) >= 2 /\ Cardinality(X) <= MaxFields}}

CompanyPayloads ==
    {EmptyMap} \cup OneKey(CompanyKeys, Scalars) \cup ManyKeys(CompanyKeys)
ContactPayloads ==
    {EmptyMap} \cup OneKey(ContactKeys, Scalars)
               \cup OneKey({"organization"}, OrganizationValues)
               \cup OneKey({"phone_numbers"}, PhoneValues)
               \cup ManyKeys(ContactKeys \cup {"organization", "phone_numbers"})

CompanyResponses ==
    Failures \cup {Ok200(j) : j \in NonObjects}
             \cup {Ok200(JObj(EmptyMap)), Ok200(JObj("error" :> JStr("x")))}
             \cup {Ok200(JObj("organization" :> v)) : v \in NonObjects}
             \cup {Ok200(JObj("organization" :> JObj(o))) : o \in CompanyPayloads}
ContactResponses ==
    Failures \cup {Ok200(j) : j \in NonObjects}
             \cup {Ok200(JObj(EmptyMap)), Ok200(JObj("error" :> JStr("x")))}
             \cup {Ok200(JObj("person" :> v)) : v \in NonObjects}
             \cup {Ok200(JObj("person" :> JObj(o))) : o \in ContactPayloads}

\* a few answers of each kind
FewCompanyResponses ==
    {Transport("Connection refused"), OtherFailure("boom"),
     Http(404, "Not Found", JInvalid), Http(201, "{}", JInvalid),
     HttpNotJson("<html>", "RequestException"), Ok200(JList(<<>>)),
     Ok200(JObj(EmptyMap)), Ok200(JObj("organization" :> JNull)),
     Ok200(JObj("organization" :> JObj(EmptyMap))),
     Ok200(JObj("organization" :>
                  JObj("name" :> JStr("Example Corp") @@ "domain" :> JStr("example.com"))))}
FewContactResponses ==
    {Transport("Connection refused"), OtherFailure("boom"),
     Http(404, "Not Found", JInvalid), Http(201, "{}", JInvalid),
     HttpNotJson("<html>", "ValueError"), Ok200(JList(<<>>)),
     Ok200(JObj(EmptyMap)), Ok200(JObj("person" :> JNull)),
     Ok200(JObj("person" :> JObj("organization" :> JStr("x")))),
     Ok200(JObj("person" :>
                  JObj("first_name" :> JStr("Jane") @@ "last_name" :> JStr("Doe"))))}

-----------------------------------------------------------------------------
(* The steps of an invocation                                              *)

Init ==
    /\ pc = [i \in Slots |-> "idle"]
    /\ args = [i \in Slots |-> NoArgs]
    /\ apollo = [i \in Slots |-> NoApollo]
    /\ wire = [i \in Slots |-> <<>>]
    /\ response = [i \in Slots |-> NoResponse]
    /\ result = [i \in Slots |-> NoResult]
    /\ ret = [i \in Slots |-> NoReturn]
    /\ vin = <<>>
    /\ vout = [fn |-> "none", ok |-> FALSE]

\* The GUI calls enrich_company_data: the checks run, and either the error
\* text is returned or the ApolloAPI object is constructed.
EnrichCompanyData(i, Keys, Domains, Links, Names, Countries) ==
    /\ pc[i] = "idle"
    /\ \E k \in Keys, d \in Domains, l \in Links, n \in Names, c \in Countries :
         LET e == company_preflight(k, d, l)
         IN  /\ args' = [args EXCEPT ![i] =
                   [kind |-> "company", api_key |-> k, ident |-> d,
                    linkedin_url |-> l, opt1 |-> n, opt2 |-> c]]
             /\ IF e # <<>>
                THEN /\ ret' = [ret EXCEPT ![i] = Text(<<e>>)]
                     /\ pc' = [pc EXCEPT ![i] = "returned"]
                     /\ UNCHANGED apollo
                ELSE /\ apollo' = ApolloAPI_init(apollo, i, k)
                     /\ pc' = [pc EXCEPT ![i] = "constructed"]
                     /\ UNCHANGED ret
    /\ UNCHANGED <<wire, response, result, vin, vout>>

\* The GUI calls enrich_contact_data.
EnrichContactData(i, Keys, Emails, Links, Firsts, Lasts) ==
    /\ pc[i] = "idle"
    /\ \E k \in Keys, m \in Emails, l \in Links, f \in Firsts, n \in Lasts :
         LET e == contact_preflight(k, m, l)
         IN  /\ args' = [args EXCEPT ![i] =
                   [kind |-> "contact", api_key |-> k, ident |-> m,
                    linkedin_url |-> l, opt1 |-> f, opt2 |-> n]]
             /\ IF e # <<>>
                THEN /\ ret' = [ret EXCEPT ![i] = Text(<<e>>)]
                     /\ pc' = [pc EXCEPT ![i] = "returned"]
                     /\ UNCHANGED apollo
                ELSE /\ apollo' = ApolloAPI_init(apollo, i, k)
                     /\ pc' = [pc EXCEPT ![i] = "constructed"]
                     /\ UNCHANGED ret
    /\ UNCHANGED <<wire, response, result, vin, vout>>

\* apollo.enrich_company(...) up to the post: the request goes out.
PostCompany(i) ==
    /\ pc[i] = "constructed"
    /\ args[i].kind = "company"
    /\ wire' = [wire EXCEPT ![i] =
          Append(@, PostCall(i, apollo[i], "/organizations/enrich",
                             company_call_params(args[i])))]
    /\ pc' = [pc EXCEPT ![i] = "awaiting"]
    /\ UNCHANGED <<args, apollo, response, result, ret, vin, vout>>

\* apollo.enrich_contact(...) up to the post.
PostContact(i) ==
    /\ pc[i] = "constructed"
    /\ args[i].kind = "contact"
    /\ wire' = [wire EXCEPT ![i] =
          Append(@, PostCall(i, apollo[i], "/people/match",
                             contact_call_params(args[i])))]
    /\ pc' = [pc EXCEPT ![i] = "awaiting"]
    /\ UNCHANGED <<args, apollo, response, result, ret, vin, vout>>

\* where the entry point stands once `r` is what it ends with
After(r) == IF r.kind = "text" THEN "returned" ELSE "raised"

\* The post ends; enrich_company builds its result and enrich_company_data
\* formats it and returns, or an exception leaves it.
FinishCompany(i, Responses) ==
    /\ pc[i] = "awaiting"
    /\ args[i].kind = "company"
    /\ \E r \in Responses :
         /\ response' = [response EXCEPT ![i] = r]
         /\ result' = [result EXCEPT ![i] = enrich_company(r)]
         /\ ret' = [ret EXCEPT ![i] = format_company(enrich_company(r))]
         /\ pc' = [pc EXCEPT ![i] = After(format_company(enrich_company(r)))]
    /\ UNCHANGED <<args, apollo, wire, vin, vout>>

FinishContact(i, Responses) ==
    /\ pc[i] = "awaiting"
    /\ args[i].kind = "contact"
    /\ \E r \in Responses :
         /\ response' = [response EXCEPT ![i] = r]
         /\ result' = [result EXCEPT ![i] = enrich_contact(r)]
         /\ ret' = [ret EXCEPT ![i] = format_contact(enrich_contact(r))]
         /\ pc' = [pc EXCEPT ![i] = After(format_contact(enrich_contact(r)))]
    /\ UNCHANGED <<args, apollo, wire, vin, vout>>

\* One invocation at a time, every form input, a few answers of each kind.
Next ==
    \/ EnrichCompanyData(1, FormKeys, FormDomains, FormLinks, FormOpts, FormOpts)
    \/ EnrichContactData(1, FormKeys, FormEmails, FormLinks, FormOpts, FormOpts)
    \/ PostCompany(1)
    \/ PostContact(1)
    \/ FinishCompany(1, FewCompanyResponses)
    \/ FinishContact(1, FewContactResponses)

Spec == Init /\ [][Next]_vars

\* One invocation at a time, one valid form, every answer.
NextFormat ==
    \/ EnrichCompanyData(1, {Key1}, {ExampleCom}, {<<>>}, {<<>>}, {<<>>})
    \/ EnrichContactData(1, {Key1}, {AtBCo}, {<<>>}, {<<>>}, {<<>>})
    \/ PostCompany(1)
    \/ PostContact(1)
    \/ FinishCompany(1, CompanyResponses)
    \/ FinishContact(1, ContactResponses)

SpecFormat == Init /\ [][NextFormat]_vars

\* Concurrent invocations, each with its own key and form, two answers.
NextConcurrent ==
    \E i \in Slots :
        \/ EnrichCompanyData(i, {Key1, Key2}, {ExampleCom}, {<<>>}, {<<>>, <<"U","S">>}, {<<>>})
        \/ EnrichContactData(i, {Key1, Key2}, {AtBCo}, {<<>>}, {<<>>, <<"J">>}, {<<>>})
        \/ PostCompany(i)
        \/ PostContact(i)
        \/ FinishCompany(i, {Http(404, "Not Found", JInvalid),
                             Ok200(JObj("organization" :> JObj("name" :> JStr("Example Corp"))))})
        \/ FinishContact(i, {Http(404, "Not Found", JInvalid),
                             Ok200(JObj("person" :> JObj("first_name" :> JStr("Jane"))))})

SpecConcurrent == Init /\ [][NextConcurrent]_vars

\* the length of the enumerated identifiers, before padding
MaxCore == 5

Pads == {<<>>, <<" ">>, <<"\n">>}
Strings(alphabet, n) == UNION {[1..m -> alphabet] : m \in 0..n}
Padded(cores) == {p \o c \o q : p \in Pads, c \in cores, q \in Pads}

\* One invocation at a time, every short identifier with and without
\* surrounding whitespace.
NextTrim ==
    \/ EnrichCompanyData(1, {Key1}, Padded(Strings({"a", ".", "-"}, MaxCore)),
                         {<<>>, LinkedInCompany \o <<"\n">>, <<" ">> \o LinkedInIn},
                         {<<>>}, {<<>>})
    \/ EnrichContactData(1, {Key1}, Padded(Strings({"a", "@", "."}, MaxCore + 1)),
                         {<<>>, LinkedInCompany \o <<"\n">>, <<" ">> \o LinkedInIn},
                         {<<>>}, {<<>>})
    \/ PostCompany(1)
    \/ PostContact(1)
    \/ FinishCompany(1, {Http(404, "Not Found", JInvalid), Ok200(JObj(EmptyMap))})
    \/ FinishContact(1, {Http(404, "Not Found", JInvalid), Ok200(JObj(EmptyMap))})

SpecTrim == Init /\ [][NextTrim]_vars

-----------------------------------------------------------------------------
(* The validators on their own                                             *)

\* the length of the enumerated strings
MaxLen == 5

Repeat(c, n) == [j \in 1..n |-> c]

ValidatorInputs ==
    Strings({"a", "1", "-", ".", " ", "\n"}, MaxLen)
      \cup FormDomains \cup FormEmails \cup FormLinks
      \cup {Repeat("a", n) \o t : n \in (DomainMidMax - 1)..(DomainMidMax + 3),
                                 t \in {<<".","c","o">>, <<"-",".","c","o">>}}

InitValidators ==
    /\ pc = [i \in Slots |-> "idle"]
    /\ args = [i \in Slots |-> NoArgs]
    /\ apollo = [i \in Slots |-> NoApollo]
    /\ wire = [i \in Slots |-> <<>>]
    /\ response = [i \in Slots |-> NoResponse]
    /\ result = [i \in Slots |-> NoResult]
    /\ ret = [i \in Slots |-> NoReturn]
    /\ vin \in ValidatorInputs
    /\ vout = [fn |-> "none", ok |-> FALSE]

RunValidateDomain ==
    /\ vout.fn = "none"
    /\ vout' = [fn |-> "validate_domain", ok |-> validate_domain(vin)]
    /\ UNCHANGED <<pc, args, apollo, wire, response, result, ret, vin>>

RunValidateEmail ==
    /\ vout.fn = "none"
    /\ vout' = [fn |-> "validate_email", ok |-> validate_email(vin)]
    /\ UNCHANGED <<pc, args, apollo, wire, response, result, ret, vin>>

RunValidateLinkedinUrl ==
    /\ vout.fn = "none"
    /\ vout' = [fn |-> "validate_linkedin_url", ok |-> validate_linkedin_url(vin)]
    /\ UNCHANGED <<pc, args, apollo, wire, response, result, ret, vin>>

NextValidators == RunValidateDomain \/ RunValidateEmail \/ RunValidateLinkedinUrl

SpecValidators == InitValidators /\ [][NextValidators]_vars

-----------------------------------------------------------------------------
(* Properties                                                              *)

Called(i) == pc[i] # "idle"
Finished(i) == pc[i] \in {"returned", "raised"}

\* empty or whitespace only
IsBlank(s) == \A j \in 1..Len(s) : s[j] \in Whitespace

IdentValid(kind, s) == IF kind = "company" THEN validate_domain(s) ELSE validate_email(s)
IdentKey(kind) == IF kind = "company" THEN "domain" ELSE "email"

\* the pre-flight checks of section 4.3, by number
CheckFails(a, n) ==
    CASE n = 1 -> IsBlank(a.api_key)
      [] n = 2 -> IsBlank(a.ident)
      [] n = 3 -> ~IdentValid(a.kind, a.ident)
      [] n = 4 -> a.linkedin_url # <<>> /\ ~validate_linkedin_url(a.linkedin_url)
FailedChecks(a) == {n \in 1..4 : CheckFails(a, n)}
FirstFailed(a) == CHOOSE n \in FailedChecks(a) : \A m \in FailedChecks(a) : n <= m

CheckError(kind, n) ==
    CASE n = 1 -> CrossMark \o " Error: Please enter your Apollo API key"
      [] n = 2 /\ kind = "company" -> CrossMark \o " Error: Company domain is required"
      [] n = 2 /\ kind = "contact" -> CrossMark \o " Error: Email address is required"
      [] n = 3 /\ kind = "company" ->
            CrossMark \o " Error: Please enter a valid domain (e.g., example.com)"
      [] n = 3 /\ kind = "contact" ->
            CrossMark \o " Error: Please enter a valid email address"
      [] n = 4 /\ kind = "company" ->
            CrossMark \o " Error: Please enter a valid LinkedIn URL (e.g., https://linkedin.com/company/example)"
      [] n = 4 /\ kind = "contact" ->
            CrossMark \o " Error: Please enter a valid LinkedIn URL (e.g., https://linkedin.com/in/username)"

\* C1: when any of the four pre-flight checks fails, the invocation returns the
\* error text of the first failing check, in the order key blank, identifier
\* blank, identifier invalid, LinkedIn URL invalid, and issues no request.
C1_PreflightOrder ==
    \A i \in Slots :
        (Called(i) /\ FailedChecks(args[i]) # {}) =>
            /\ pc[i] = "returned"
            /\ ret[i] = Text(<< <<CheckError(args[i].kind, FirstFailed(args[i]))>> >>)
            /\ wire[i] = <<>>

\* an invocation whose identifier and LinkedIn URL are both invalid has returned
C1_Witness ==
    \E i \in Slots :
        /\ pc[i] = "returned"
        /\ FailedChecks(args[i]) = {3, 4}

\* C2: whatever the inputs and the provider's answer, the entry points end by
\* returning text; no exception leaves them.
C2_NoExceptionEscapes ==
    \A i \in Slots : Finished(i) => (pc[i] = "returned" /\ ret[i].kind = "text")

ResultKey(kind) == IF kind = "company" THEN "organization" ELSE "person"

\* C3: a success result carries a JSON object, the value under the
\* organization/person key of the decoded response or the empty mapping when
\* the key is absent; an error result carries the empty mapping and a
\* non-empty message.
C3_ResultShape ==
    \A i \in Slots :
        /\ result[i].status = "success" =>
              /\ result[i].data.t = "obj"
              /\ response[i].json.t = "obj"
              /\ result[i].data =
                    DictGet(response[i].json, ResultKey(args[i].kind), JObj(EmptyMap))
        /\ result[i].status = "error" =>
              /\ result[i].data = JObj(EmptyMap)
              /\ result[i].message # ""

\* where the report shows each payload key: <<key, line, piece>>
CompanyCells ==
    {<<"name", 4, 2>>, <<"domain", 5, 2>>, <<"website_url", 6, 2>>,
     <<"linkedin_url", 7, 2>>, <<"industry", 8, 2>>,
     <<"estimated_num_employees", 9, 2>>, <<"city", 10, 2>>, <<"state", 10, 4>>,
     <<"country", 10, 6>>, <<"founded_year", 11, 2>>, <<"short_description", 12, 2>>}
ContactCells ==
    {<<"first_name", 4, 2>>, <<"last_name", 4, 4>>, <<"email", 5, 2>>,
     <<"linkedin_url", 6, 2>>, <<"title", 7, 2>>, <<"city", 9, 2>>,
     <<"state", 9, 4>>, <<"country", 9, 6>>, <<"twitter_url", 11, 2>>,
     <<"headline", 12, 2>>}

\* N/A for an absent key or a falsy value, the value otherwise
ShownOrNA(data, key) ==
    IF key \in DOMAIN data.o /\ Truthy(data.o[key]) THEN PyStr(data.o[key]) ELSE NA

\* the two nested fields of the contact report: organization.name and the
\* raw_number of the first of phone_numbers, as JObj of the innermost mapping
\* when there is one
Inner(data, key) ==
    IF key \notin DOMAIN data.o THEN JObj(EmptyMap)
    ELSE IF data.o[key].t = "obj" THEN data.o[key]
    ELSE IF data.o[key].t = "list" /\ data.o[key].l # <<>> /\ data.o[key].l[1].t = "obj"
         THEN data.o[key].l[1]
    ELSE JObj(EmptyMap)

\* C4: in a success report every labeled field shows N/A when its key is
\* absent from the payload or present with a falsy value, and the payload
\* value otherwise.
C4_FalsyShowsNA ==
    \A i \in Slots :
        (result[i].status = "success" /\ ret[i].kind = "text") =>
            /\ \A c \in (IF args[i].kind = "company" THEN CompanyCells ELSE ContactCells) :
                  ret[i].lines[c[2]][c[3]] = ShownOrNA(result[i].data, c[1])
            /\ args[i].kind = "contact" =>
                  /\ ret[i].lines[8][2] =
                        ShownOrNA(Inner(result[i].data, "organization"), "name")
                  /\ ret[i].lines[10][2] =
                        ShownOrNA(Inner(result[i].data, "phone_numbers"), "raw_number")

OkMessage(kind) ==
    IF kind = "company" THEN "Company data enriched successfully"
    ELSE "Contact data enriched successfully"

\* the parts of C5 that do not concern status 200
C5_NotOk(i) ==
    /\ (response[i].kind = "http" /\ response[i].status # 200) =>
          /\ result[i].status = "error"
          /\ result[i].message =
                "API Error: " \o NatStr(response[i].status) \o " - " \o response[i].text
    /\ response[i].kind = "transport" =>
          /\ result[i].status = "error"
          /\ result[i].message = "Request failed: " \o response[i].err
    /\ response[i].kind = "other" =>
          /\ result[i].status = "error"
          /\ result[i].message = "Unexpected error: " \o response[i].err

\* C5 as stated: status 200 gives success with the fixed message, any other
\* status an error embedding the code and the raw body, a transport failure an
\* error embedding the exception text, any other exception the
\* 'Unexpected error' message.
C5_Original ==
    \A i \in Slots :
        /\ C5_NotOk(i)
        /\ (response[i].kind = "http" /\ response[i].status = 200) =>
              /\ result[i].status = "success"
              /\ result[i].message = OkMessage(args[i].kind)

\* C5 amended: status 200 gives success with the fixed message when the body
\* decodes to a JSON object; a 200 whose body is no JSON gives an error with
\* the 'Request failed' or the 'Unexpected error' message, and a 200 whose body
\* decodes to something else than an object gives an error with the
\* 'Unexpected error' message; the other outcomes are as stated.
C5_Classification ==
    \A i \in Slots :
        /\ C5_NotOk(i)
        /\ (response[i].kind = "http" /\ response[i].status = 200) =>
              CASE response[i].json.t = "obj" ->
                     /\ result[i].status = "success"
                     /\ result[i].message = OkMessage(args[i].kind)
                [] response[i].json.t = "invalid" ->
                     /\ result[i].status = "error"
                     /\ result[i].message \in
                           {"Request failed: " \o response[i].err,
                            "Unexpected error: " \o response[i].err}
                [] OTHER ->
                     /\ result[i].status = "error"
                     /\ result[i].message =
                           "Unexpected error: " \o NoGetAttr(response[i].json)

\* a 200 whose body was no JSON object has been classified
C5_Witness ==
    \E i \in Slots :
        /\ response[i].kind = "http"
        /\ response[i].status = 200
        /\ response[i].json.t \notin {"obj", "invalid"}
        /\ result[i].status = "error"

\* the optional fields of an invocation: <<form value, provider key>>
OptionalFields(a) ==
    IF a.kind = "company"
    THEN {<<a.linkedin_url, "linkedin_url">>, <<a.opt1, "name">>, <<a.opt2, "country">>}
    ELSE {<<a.linkedin_url, "linkedin_url">>, <<a.opt1, "first_name">>,
          <<a.opt2, "last_name">>}

\* C6: an optional field that is empty after trimming is treated as absent:
\* it causes no validation error, and the request body holds the field's key
\* exactly when the trimmed value is non-empty, with the trimmed value.
C6_OptionalTrimmed ==
    \A i \in Slots :
        Called(i) =>
            /\ (FailedChecks(args[i]) \subseteq {4} /\ IsBlank(args[i].linkedin_url)) =>
                  ~(pc[i] = "returned" /\ wire[i] = <<>>)
            /\ \A n \in 1..Len(wire[i]) : \A f \in OptionalFields(args[i]) :
                  /\ (f[2] \in DOMAIN wire[i][n].json) <=> (Strip(f[1]) # <<>>)
                  /\ (f[2] \in DOMAIN wire[i][n].json) => wire[i][n].json[f[2]] = Strip(f[1])

\* label '.' tld: a label of 1 to 63 letters, digits and hyphens that neither
\* starts nor ends with a hyphen, and an alphabetic tld of at least 2
IsLabelDotTld(s) ==
    \E k \in 1..Len(s) :
        /\ s[k] = "."
        /\ k - 1 >= 1
        /\ k - 1 <= 63
        /\ \A j \in 1..(k - 1) : s[j] \in AlNumHyphen
        /\ s[1] # "-"
        /\ s[k - 1] # "-"
        /\ Len(s) - k >= 2
        /\ \A j \in (k + 1)..Len(s) : s[j] \in Alpha

\* C7: validate_domain is true only for label '.' tld strings whose label
\* neither starts nor ends with a hyphen; it is false for the empty string
\* and for a label ending with a hyphen.
C7_DomainShape ==
    (vout.fn = "validate_domain" /\ vout.ok) => IsLabelDotTld(vin)

\* C8: an invocation issues at most one request, and once the HTTP call has
\* returned or failed it has ended by returning text.
C8_SinglePass ==
    \A i \in Slots :
        /\ Len(wire[i]) <= 1
        /\ response[i].kind # "none" => (pc[i] = "returned" /\ ret[i].kind = "text")

OwnParams(a) ==
    IF a.kind = "company" THEN company_call_params(a) ELSE contact_call_params(a)
OwnReturn(a, r) ==
    IF a.kind = "company" THEN format_company(enrich_company(r))
    ELSE format_contact(enrich_contact(r))

\* C9: with invocations running concurrently, every request carries the key
\* and the fields of the invocation that issued it, and what an invocation
\* returns is determined by its own inputs and its own HTTP outcome.
C9_Independent ==
    \A i \in Slots :
        /\ \A n \in 1..Len(wire[i]) :
              /\ wire[i][n].from = i
              /\ wire[i][n].headers["X-Api-Key"] = args[i].api_key
              /\ wire[i][n].json = OwnParams(args[i])
        /\ (Finished(i) /\ response[i].kind # "none") =>
              ret[i] = OwnReturn(args[i], response[i])

\* two invocations with different keys have both issued their request, one
\* of them while the other had not finished
C9_Witness ==
    \E i, j \in Slots :
        /\ args[i].api_key # args[j].api_key
        /\ wire[i] # <<>>
        /\ wire[j] # <<>>
        /\ pc[i] = "awaiting"
        /\ Finished(j)

\* C10: the identifier in a request body is the trimmed form value and passes
\* its validator, and a linkedin_url in the body matches the LinkedIn pattern;
\* a form value that passes its validator only once trimmed is rejected with
\* the format error and issues no request.
C10_ValidatedUntrimmed ==
    \A i \in Slots :
        /\ \A n \in 1..Len(wire[i]) :
              LET body == wire[i][n].json
                  id == body[IdentKey(args[i].kind)]
              IN  /\ id = Strip(args[i].ident)
                  /\ IdentValid(args[i].kind, id)
                  /\ "linkedin_url" \in DOMAIN body =>
                        /\ body["linkedin_url"] # <<>>
                        /\ validate_linkedin_url(body["linkedin_url"])
        /\ ( /\ Called(i)
             /\ ~IsBlank(args[i].api_key)
             /\ ~IdentValid(args[i].kind, args[i].ident)
             /\ IdentValid(args[i].kind, Strip(args[i].ident)) ) =>
              /\ pc[i] = "returned"
              /\ ret[i] = Text(<< <<CheckError(args[i].kind, 3)>> >>)
              /\ wire[i] = <<>>

\* a request went out whose identifier differs from the form value, with a
\* linkedin_url in its body
C10_Witness ==
    \E i \in Slots :
        /\ wire[i] # <<>>
        /\ args[i].ident # Strip(args[i].ident)
        /\ "linkedin_url" \in DOMAIN wire[i][1].json

====
